---- MODULE Spec2Model ----
(***************************************************************************)
(* Batch job controller of the motor-fault spectrogram application.        *)
(*                                                                         *)
(* One batch session is modelled: the request thread that runs             *)
(* handle_batch_upload, the background thread that runs                    *)
(* process_batch_files, a polling client (get_batch_status and             *)
(* batch_progress) and the clear_results request.  The threads share the   *)
(* registry batch_status, the lock batch_lock and the uploads/ and         *)
(* results/ directories of the session.                                    *)
(*                                                                         *)
(* The two lists of a Job (completed_files, errors) are Python list        *)
(* objects: the Job record holds references to them, and so does every     *)
(* dict.copy() of the record.  They are modelled as the variables          *)
(* completed_files and errors, which outlive the record.                   *)
(*                                                                         *)
(* Three further views share the module: handle_batch_upload over many     *)
(* upload requests, each with a session id of its own (SubmitSpec), the    *)
(* pipeline of one file, generate_all_spectrograms followed by             *)
(* extract_all_features (RenderSpec), and the batch run by                 *)
(* BatchProcessor.process_batch in place of process_batch_files (ProcSpec).*)
(***************************************************************************)
EXTENDS Integers, Sequences, FiniteSets, TLC

\* Largest number of files in a submitted batch.
MaxFiles == 2

\* original_name of the k-th upload of the batch: secure_filename of the
\* name the client gave it.
DisplayName(k) == "audio" \o ToString(k) \o ".wav"

\* What an uploaded file holds: decodable audio, bytes librosa.load cannot
\* decode, or decodable audio on which feature extraction raises.
Contents == {"ok", "corrupt", "degenerate"}

NoJob == [absent |-> TRUE]
NoSession == "no_session"
SessionId == "s1"
NoSnapshot == [absent |-> TRUE]
NoResponse == [kind |-> "none"]

VARIABLES
    batch_status,      \* registry entry of the session: NoJob or the Job record
    completed_files,   \* the list object referenced by Job['completed_files']
    errors,            \* the list object referenced by Job['errors']
    batch_lock,        \* "free" or the thread holding batch_lock
    session,           \* the client's cookie: NoSession or SessionId
    file_list,         \* saved_files: sequence of [original_name, saved_name]
    uploads,           \* uploads/<session>/: per file its content or "absent"
    results_dir,       \* results/<session>/ exists
    file_dirs,         \* file ids whose results/<session>/<file_id>/ exists
    features_json,     \* file ids whose directory holds features.json
    png,               \* file ids whose directory holds spectrogram images
    u_pc,              \* position of handle_batch_upload
    w_pc,              \* position of process_batch_files
    w_i,               \* loop variable i of process_batch_files
    w_exc,             \* exception being handled by the worker
    c_pc,              \* position of clear_results
    r_pc,              \* position of the status reader
    status,            \* the reader's local: batch_status[session_id].copy()
    response,          \* answer to the client's latest request, once sent
    \* history variables
    cleared,           \* clear_results has started for the session
    ctrl_failed,       \* os.makedirs(results_dir) raised in the worker
    started,           \* file indices whose pipeline the worker has begun
    outcomes,          \* per started file, how its pipeline ended
    at_copy,           \* the two lists as they stood when status was copied
    last_reported      \* current_file of the latest status body sent

\* Variables of the view of handle_batch_upload over many submissions.
VARIABLES
    registry,          \* batch_status over all sessions: [sid, total_files]
    threads,           \* session_id argument of every worker thread started
    cookie,            \* per client, the session_id its cookie carries
    uuids,             \* how many uuid4 values have been drawn
    req,               \* per client, its upload request in progress
    submit_log         \* history: one entry per answered upload request

\* Variables of the view of one file's pipeline: generate_all_spectrograms
\* followed by extract_all_features on the same upload.
VARIABLES
    audio,             \* what the upload holds: "ok" or "corrupt"
    fail_kinds,        \* the kinds whose rendering raises on this audio
    denoiser,          \* whether the denoiser works or raises inside
    denoising_method,  \* the denoising_method argument of the call
    p_pc,              \* position in the pipeline
    spec_idx,          \* position of the loop over the six kinds
    y,                 \* the local y of generate_all_spectrograms
    written,           \* kinds whose <kind>_spectrogram.png is on disk
    spectrogram_paths, \* keys of the mapping generate_all_spectrograms builds
    attempted,         \* history: kinds whose renderer was called
    renderer_input,    \* history: the samples handed to the renderers
    extractor_input,   \* history: the samples the feature extractor worked on
    features           \* the dict extract_all_features returned: key -> value

renderVars == <<audio, fail_kinds, denoiser, denoising_method, p_pc, spec_idx, y, written,
                spectrogram_paths, attempted, renderer_input, extractor_input,
                features>>

\* The variables of the one-session model, batch_lock apart.
noLockVars == <<batch_status, completed_files, errors, session,
                file_list, uploads, results_dir, file_dirs, features_json, png,
                u_pc, w_pc, w_i, w_exc, c_pc, r_pc, status, response,
                cleared, ctrl_failed, started, outcomes, at_copy, last_reported>>

batchVars == <<batch_lock, noLockVars>>

submitVars == <<registry, threads, cookie, uuids, req, submit_log>>

\* The variables the one-session model does not use.
otherVars == <<submitVars, renderVars>>

vars == <<batchVars, otherVars>>

fsVars == <<uploads, results_dir, file_dirs, features_json, png>>
jobVars == <<batch_status, completed_files, errors>>
workerVars == <<w_pc, w_i, w_exc>>
readerVars == <<r_pc, status, response, at_copy, last_reported>>
histVars == <<cleared, ctrl_failed, started, outcomes>>

----------------------------------------------------------------------------
\* Helpers

total == Len(file_list)

\* file_id = saved_filename.split('.')[0]; saved names are fresh uuids, one
\* per file, modelled by the file's position in the list.
FileId(k) == file_list[k].saved_name

\* Variant of ErrorMsg that leaves the file's display name out of the message.
ErrorMsg_NoName(name, exc) == [prefix |-> "Error processing", name |-> "", exc |-> exc]

\* error_msg = f"Error processing {file_info['original_name']}: {str(e)}"
ErrorMsg(name, exc) == [prefix |-> "Error processing", name |-> name, exc |-> exc]

\* round(x, 1) of x = current_file / total_files * 100, in tenths of a
\* percent (round half to even); 0 when total_files is 0.
Progress(cur, tot) ==
    IF tot > 0
    THEN LET q == (cur * 1000) \div tot
             r == (cur * 1000) % tot
         IN  IF 2 * r > tot \/ (2 * r = tot /\ q % 2 = 1) THEN q + 1 ELSE q
    ELSE 0

\* The browsers that send upload requests.
Clients == {"c1", "c2"}

NoRequest == [pc |-> "idle"]

\* Nothing submitted yet: batch_status = {} and no cookie anywhere.
SubmitIdle ==
    /\ registry = {}
    /\ threads = << >>
    /\ cookie = [c \in Clients |-> NoSession]
    /\ uuids = 0
    /\ req = [c \in Clients |-> NoRequest]
    /\ submit_log = << >>

NoSamples == [source |-> "none"]

\* No pipeline has been called.
RenderIdle ==
    /\ audio = "none"
    /\ fail_kinds = {}
    /\ denoiser = "ok"
    /\ denoising_method = "spectral_gating"
    /\ p_pc = "idle"
    /\ spec_idx = 0
    /\ y = NoSamples
    /\ written = {}
    /\ spectrogram_paths = {}
    /\ attempted = {}
    /\ renderer_input = NoSamples
    /\ extractor_input = NoSamples
    /\ features = << >>

Init ==
    /\ SubmitIdle
    /\ RenderIdle
    /\ batch_status = NoJob
    /\ completed_files = << >>
    /\ errors = << >>
    /\ batch_lock = "free"
    /\ session = NoSession
    /\ file_list = << >>
    /\ uploads = << >>
    /\ results_dir = FALSE
    /\ file_dirs = {}
    /\ features_json = {}
    /\ png = {}
    /\ u_pc = "idle"
    /\ w_pc = "idle"
    /\ w_i = 0
    /\ w_exc = "none"
    /\ c_pc = "idle"
    /\ r_pc = "idle"
    /\ status = NoSnapshot
    /\ response = NoResponse
    /\ cleared = FALSE
    /\ ctrl_failed = FALSE
    /\ started = << >>
    /\ outcomes = << >>
    /\ at_copy = << >>
    /\ last_reported = 0

----------------------------------------------------------------------------
\* handle_batch_upload

\* save_uploaded_files: every valid file is stored under a fresh name.
Upload_Save ==
    /\ u_pc = "idle"
    /\ \E n \in 1..MaxFiles :
         \E contents \in [1..n -> Contents] :
            /\ file_list' = [k \in 1..n |->
                               [original_name |-> DisplayName(k),
                                saved_name |-> k]]
            /\ uploads' = [k \in 1..n |-> contents[k]]
    /\ u_pc' = "lock"
    /\ UNCHANGED <<jobVars, batch_lock, session, results_dir, file_dirs,
                   features_json, png, workerVars, c_pc, readerVars, histVars>>
    /\ UNCHANGED otherVars

Upload_Acquire ==
    /\ u_pc = "lock"
    /\ batch_lock = "free"
    /\ batch_lock' = "upload"
    /\ u_pc' = "register"
    /\ UNCHANGED <<jobVars, session, file_list, fsVars, workerVars, c_pc,
                   readerVars, histVars>>
    /\ UNCHANGED otherVars

Upload_Register ==
    /\ u_pc = "register"
    /\ batch_status' = [status |-> "processing",
                        current_file |-> 0,
                        total_files |-> Len(file_list),
                        current_filename |-> "Initializing...",
                        end_time |-> FALSE,
                        error |-> "none"]
    /\ completed_files' = << >>
    /\ errors' = << >>
    /\ batch_lock' = "free"
    /\ u_pc' = "start"
    /\ UNCHANGED <<session, file_list, fsVars, workerVars, c_pc, readerVars,
                   histVars>>
    /\ UNCHANGED otherVars

\* thread.start(), then the redirect that carries the session cookie.
Upload_Start ==
    /\ u_pc = "start"
    /\ w_pc' = "makedirs"
    /\ session' = SessionId
    /\ u_pc' = "done"
    /\ UNCHANGED <<jobVars, batch_lock, file_list, fsVars, w_i, w_exc, c_pc,
                   readerVars, histVars>>
    /\ UNCHANGED otherVars

----------------------------------------------------------------------------
\* process_batch_files

CurFile == w_i + 1

\* os.makedirs(results_dir, exist_ok=True) at the top of the outer try; an
\* OSError here is the only exception that reaches the outer handler.
Worker_MakeDirs ==
    /\ w_pc = "makedirs"
    /\ \E ok \in BOOLEAN :
         IF ok
         THEN /\ results_dir' = TRUE
              /\ w_pc' = "loop"
              /\ UNCHANGED <<w_exc, ctrl_failed>>
         ELSE /\ w_pc' = "outer_except"
              /\ w_exc' = "makedirs"
              /\ ctrl_failed' = TRUE
              /\ UNCHANGED results_dir
    /\ UNCHANGED <<jobVars, batch_lock, session, file_list, uploads, file_dirs,
                   features_json, png, u_pc, w_i, c_pc, readerVars, cleared,
                   started, outcomes>>
    /\ UNCHANGED otherVars

\* for i, file_info in enumerate(file_list): with batch_lock
Worker_LoopAcquire ==
    /\ w_pc = "loop"
    /\ batch_lock = "free"
    /\ batch_lock' = "worker"
    /\ w_pc' = "loop_locked"
    /\ UNCHANGED <<jobVars, session, file_list, fsVars, u_pc, w_i, w_exc, c_pc,
                   readerVars, histVars>>
    /\ UNCHANGED otherVars

\* Variant of Worker_LoopBody that records the zero-based loop index.
Worker_LoopBody_ZeroBased ==
    /\ w_pc = "loop_locked"
    /\ IF batch_status = NoJob
       THEN /\ w_pc' = "final"
            /\ UNCHANGED <<batch_status, started>>
       ELSE /\ batch_status' =
                  [batch_status EXCEPT
                      !.current_file = w_i,
                      !.current_filename = file_list[CurFile].original_name]
            /\ started' = Append(started, CurFile)
            /\ w_pc' = "exists"
    /\ batch_lock' = "free"
    /\ UNCHANGED <<completed_files, errors, session, file_list, fsVars, u_pc,
                   w_i, w_exc, c_pc, readerVars, cleared, ctrl_failed,
                   outcomes>>
    /\ UNCHANGED otherVars

\* Variant of Worker_LoopBody that records an index one too high.
Worker_LoopBody_OneAhead ==
    /\ w_pc = "loop_locked"
    /\ IF batch_status = NoJob
       THEN /\ w_pc' = "final"
            /\ UNCHANGED <<batch_status, started>>
       ELSE /\ batch_status' =
                  [batch_status EXCEPT
                      !.current_file = w_i + 2,
                      !.current_filename = file_list[CurFile].original_name]
            /\ started' = Append(started, CurFile)
            /\ w_pc' = "exists"
    /\ batch_lock' = "free"
    /\ UNCHANGED <<completed_files, errors, session, file_list, fsVars, u_pc,
                   w_i, w_exc, c_pc, readerVars, cleared, ctrl_failed,
                   outcomes>>
    /\ UNCHANGED otherVars

\* Variant of Worker_LoopBody without the membership test: the worker starts
\* the next file whether or not the Job record is still registered.
Worker_LoopBody_NoBreak ==
    /\ w_pc = "loop_locked"
    /\ batch_status' =
          IF batch_status = NoJob
          THEN batch_status
          ELSE [batch_status EXCEPT
                   !.current_file = w_i + 1,
                   !.current_filename = file_list[CurFile].original_name]
    /\ started' = Append(started, CurFile)
    /\ w_pc' = "exists"
    /\ batch_lock' = "free"
    /\ UNCHANGED <<completed_files, errors, session, file_list, fsVars, u_pc,
                   w_i, w_exc, c_pc, readerVars, cleared, ctrl_failed,
                   outcomes>>
    /\ UNCHANGED otherVars

\* if session_id not in batch_status: break; else record index and name.
Worker_LoopBody ==
    /\ w_pc = "loop_locked"
    /\ IF batch_status = NoJob
       THEN /\ w_pc' = "final"
            /\ UNCHANGED <<batch_status, started>>
       ELSE /\ batch_status' =
                  [batch_status EXCEPT
                      !.current_file = w_i + 1,
                      !.current_filename = file_list[CurFile].original_name]
            /\ started' = Append(started, CurFile)
            /\ w_pc' = "exists"
    /\ batch_lock' = "free"
    /\ UNCHANGED <<completed_files, errors, session, file_list, fsVars, u_pc,
                   w_i, w_exc, c_pc, readerVars, cleared, ctrl_failed,
                   outcomes>>
    /\ UNCHANGED otherVars

\* if not os.path.exists(audio_path): raise FileNotFoundError
Worker_Exists ==
    /\ w_pc = "exists"
    /\ IF uploads[CurFile] = "absent"
       THEN /\ w_pc' = "except"
            /\ w_exc' = "missing"
            /\ outcomes' = Append(outcomes, [file |-> CurFile, result |-> "missing"])
       ELSE /\ w_pc' = "file_makedirs"
            /\ UNCHANGED <<w_exc, outcomes>>
    /\ UNCHANGED <<jobVars, batch_lock, session, file_list, fsVars, u_pc, w_i,
                   c_pc, readerVars, cleared, ctrl_failed, started>>
    /\ UNCHANGED otherVars

\* os.makedirs(file_results_dir, exist_ok=True) creates missing parents too.
Worker_FileMakeDirs ==
    /\ w_pc = "file_makedirs"
    /\ results_dir' = TRUE
    /\ file_dirs' = file_dirs \cup {FileId(CurFile)}
    /\ w_pc' = "spectrograms"
    /\ UNCHANGED <<jobVars, batch_lock, session, file_list, uploads,
                   features_json, png, u_pc, w_i, w_exc, c_pc, readerVars,
                   histVars>>
    /\ UNCHANGED otherVars

\* generate_all_spectrograms(audio_path, session_id, file_id): a failing
\* librosa.load is swallowed by its own handler (it returns {}); otherwise
\* it re-creates the file's directory and writes the images.  It never raises.
Worker_Spectrograms ==
    /\ w_pc = "spectrograms"
    /\ IF uploads[CurFile] \in {"absent", "corrupt"}
       THEN UNCHANGED <<results_dir, file_dirs, png>>
       ELSE /\ results_dir' = TRUE
            /\ file_dirs' = file_dirs \cup {FileId(CurFile)}
            /\ png' = png \cup {FileId(CurFile)}
    /\ w_pc' = "features"
    /\ UNCHANGED <<jobVars, batch_lock, session, file_list, uploads,
                   features_json, u_pc, w_i, w_exc, c_pc, readerVars, histVars>>
    /\ UNCHANGED otherVars

\* Result of extract_all_features(audio_path) on what the upload holds now.
ExtractOutcome(content) ==
    CASE content = "ok"         -> "ok"
      [] content = "corrupt"    -> "decode"
      [] content = "degenerate" -> "feature"
      [] content = "absent"     -> "missing"

\* Variant of Worker_Features that looks for the Job record in the middle of
\* a file and abandons the file when the record is gone.
Worker_Features_ChecksCancel ==
    /\ w_pc = "features"
    /\ IF batch_status = NoJob
       THEN /\ w_pc' = "final"
            /\ UNCHANGED <<w_exc, outcomes>>
       ELSE LET res == ExtractOutcome(uploads[CurFile]) IN
              IF res = "ok"
              THEN /\ w_pc' = "write"
                   /\ UNCHANGED <<w_exc, outcomes>>
              ELSE /\ w_pc' = "except"
                   /\ w_exc' = res
                   /\ outcomes' = Append(outcomes, [file |-> CurFile, result |-> res])
    /\ UNCHANGED <<jobVars, batch_lock, session, file_list, fsVars, u_pc, w_i,
                   c_pc, readerVars, cleared, ctrl_failed, started>>
    /\ UNCHANGED otherVars

\* Variant of Worker_Features in which the call sits outside the per-file
\* try block, so its exception reaches the outer handler.
Worker_Features_Escapes ==
    /\ w_pc = "features"
    /\ LET res == ExtractOutcome(uploads[CurFile]) IN
         IF res = "ok"
         THEN /\ w_pc' = "write"
              /\ UNCHANGED <<w_exc, outcomes>>
         ELSE /\ w_pc' = "outer_except"
              /\ w_exc' = res
              /\ outcomes' = Append(outcomes, [file |-> CurFile, result |-> res])
    /\ UNCHANGED <<jobVars, batch_lock, session, file_list, fsVars, u_pc, w_i,
                   c_pc, readerVars, cleared, ctrl_failed, started>>
    /\ UNCHANGED otherVars

\* features_df = extract_all_features(audio_path)
Worker_Features ==
    /\ w_pc = "features"
    /\ LET res == ExtractOutcome(uploads[CurFile]) IN
         IF res = "ok"
         THEN /\ w_pc' = "write"
              /\ UNCHANGED <<w_exc, outcomes>>
         ELSE /\ w_pc' = "except"
              /\ w_exc' = res
              /\ outcomes' = Append(outcomes, [file |-> CurFile, result |-> res])
    /\ UNCHANGED <<jobVars, batch_lock, session, file_list, fsVars, u_pc, w_i,
                   c_pc, readerVars, cleared, ctrl_failed, started>>
    /\ UNCHANGED otherVars

\* with open(features_path, 'w') as f: json.dump(...).  open raises when the
\* directory is gone, and the write can fail on the storage itself.
Worker_Write ==
    /\ w_pc = "write"
    /\ \E storage_ok \in BOOLEAN :
         IF FileId(CurFile) \in file_dirs /\ storage_ok
         THEN /\ features_json' = features_json \cup {FileId(CurFile)}
              /\ w_pc' = "completed"
              /\ outcomes' = Append(outcomes, [file |-> CurFile, result |-> "ok"])
              /\ UNCHANGED w_exc
         ELSE /\ w_pc' = "except"
              /\ w_exc' = "write"
              /\ outcomes' = Append(outcomes, [file |-> CurFile, result |-> "write"])
              /\ UNCHANGED features_json
    /\ UNCHANGED <<jobVars, batch_lock, session, file_list, uploads,
                   results_dir, file_dirs, png, u_pc, w_i, c_pc, readerVars,
                   cleared, ctrl_failed, started>>
    /\ UNCHANGED otherVars

Worker_CompletedAcquire ==
    /\ w_pc = "completed"
    /\ batch_lock = "free"
    /\ batch_lock' = "worker"
    /\ w_pc' = "completed_locked"
    /\ UNCHANGED <<jobVars, session, file_list, fsVars, u_pc, w_i, w_exc, c_pc,
                   readerVars, histVars>>
    /\ UNCHANGED otherVars

\* if session_id in batch_status: completed_files.append(original_filename)
Worker_CompletedBody ==
    /\ w_pc = "completed_locked"
    /\ IF batch_status # NoJob
       THEN completed_files' =
                Append(completed_files, file_list[CurFile].original_name)
       ELSE UNCHANGED completed_files
    /\ batch_lock' = "free"
    /\ w_pc' = "sleep"
    /\ UNCHANGED <<batch_status, errors, session, file_list, fsVars, u_pc,
                   w_i, w_exc, c_pc, readerVars, histVars>>
    /\ UNCHANGED otherVars

\* except Exception as e: error_msg = ...; with batch_lock
Worker_ExceptAcquire ==
    /\ w_pc = "except"
    /\ batch_lock = "free"
    /\ batch_lock' = "worker"
    /\ w_pc' = "except_locked"
    /\ UNCHANGED <<jobVars, session, file_list, fsVars, u_pc, w_i, w_exc, c_pc,
                   readerVars, histVars>>
    /\ UNCHANGED otherVars

\* Variant of Worker_ExceptBody that keeps only the latest message: the
\* error list is replaced instead of extended.
Worker_ExceptBody_KeepsLast ==
    /\ w_pc = "except_locked"
    /\ IF batch_status # NoJob
       THEN errors' = <<ErrorMsg(file_list[CurFile].original_name, w_exc)>>
       ELSE UNCHANGED errors
    /\ batch_lock' = "free"
    /\ w_exc' = "none"
    /\ w_pc' = "sleep"
    /\ UNCHANGED <<batch_status, completed_files, session, file_list, fsVars,
                   u_pc, w_i, c_pc, readerVars, histVars>>
    /\ UNCHANGED otherVars

\* Variant of Worker_ExceptBody that retries the failed file: after recording
\* the error it runs the file's pipeline again.
Worker_ExceptBody_Retries ==
    /\ w_pc = "except_locked"
    /\ IF batch_status # NoJob
       THEN errors' =
                Append(errors, ErrorMsg(file_list[CurFile].original_name, w_exc))
       ELSE UNCHANGED errors
    /\ batch_lock' = "free"
    /\ w_exc' = "none"
    /\ w_pc' = "exists"
    /\ UNCHANGED <<batch_status, completed_files, session, file_list, fsVars,
                   u_pc, w_i, c_pc, readerVars, histVars>>
    /\ UNCHANGED otherVars

\* Variant of Worker_ExceptBody that also marks the Job failed when a file
\* fails (fail-fast bookkeeping), then carries on with the loop.
Worker_ExceptBody_MarksError ==
    /\ w_pc = "except_locked"
    /\ IF batch_status # NoJob
       THEN /\ errors' =
                Append(errors, ErrorMsg(file_list[CurFile].original_name, w_exc))
            /\ batch_status' = [batch_status EXCEPT !.status = "error"]
       ELSE UNCHANGED <<errors, batch_status>>
    /\ batch_lock' = "free"
    /\ w_exc' = "none"
    /\ w_pc' = "sleep"
    /\ UNCHANGED <<completed_files, session, file_list, fsVars,
                   u_pc, w_i, c_pc, readerVars, histVars>>
    /\ UNCHANGED otherVars

\* if session_id in batch_status: errors.append(error_msg)
Worker_ExceptBody ==
    /\ w_pc = "except_locked"
    /\ IF batch_status # NoJob
       THEN errors' =
                Append(errors, ErrorMsg(file_list[CurFile].original_name, w_exc))
       ELSE UNCHANGED errors
    /\ batch_lock' = "free"
    /\ w_exc' = "none"
    /\ w_pc' = "sleep"
    /\ UNCHANGED <<batch_status, completed_files, session, file_list, fsVars,
                   u_pc, w_i, c_pc, readerVars, histVars>>
    /\ UNCHANGED otherVars

\* time.sleep(0.1), then the next iteration or the end of the loop.
Worker_Sleep ==
    /\ w_pc = "sleep"
    /\ w_i' = w_i + 1
    /\ w_pc' = IF w_i + 1 < Len(file_list) THEN "loop" ELSE "final"
    /\ UNCHANGED <<jobVars, batch_lock, session, file_list, fsVars, u_pc,
                   w_exc, c_pc, readerVars, histVars>>
    /\ UNCHANGED otherVars

\* Mark as completed: with batch_lock
Worker_FinalAcquire ==
    /\ w_pc = "final"
    /\ batch_lock = "free"
    /\ batch_lock' = "worker"
    /\ w_pc' = "final_locked"
    /\ UNCHANGED <<jobVars, session, file_list, fsVars, u_pc, w_i, w_exc, c_pc,
                   readerVars, histVars>>
    /\ UNCHANGED otherVars

\* Variant of Worker_FinalBody that also resets the index once no file is
\* current any more.
Worker_FinalBody_ResetsIndex ==
    /\ w_pc = "final_locked"
    /\ IF batch_status # NoJob
       THEN batch_status' = [batch_status EXCEPT !.status = "completed",
                                                 !.end_time = TRUE,
                                                 !.current_file = 0]
       ELSE UNCHANGED batch_status
    /\ batch_lock' = "free"
    /\ w_pc' = "done"
    /\ UNCHANGED <<completed_files, errors, session, file_list, fsVars, u_pc,
                   w_i, w_exc, c_pc, readerVars, histVars>>
    /\ UNCHANGED otherVars

\* Variant of Worker_FinalBody that marks the Job completed only when no
\* file failed.
Worker_FinalBody_OnlyIfNoErrors ==
    /\ w_pc = "final_locked"
    /\ IF batch_status # NoJob /\ errors = << >>
       THEN batch_status' = [batch_status EXCEPT !.status = "completed",
                                                 !.end_time = TRUE]
       ELSE UNCHANGED batch_status
    /\ batch_lock' = "free"
    /\ w_pc' = "done"
    /\ UNCHANGED <<completed_files, errors, session, file_list, fsVars, u_pc,
                   w_i, w_exc, c_pc, readerVars, histVars>>
    /\ UNCHANGED otherVars

\* Variant of Worker_FinalBody that writes the final status into a record
\* it creates when the session has none.
Worker_FinalBody_Reinserts ==
    /\ w_pc = "final_locked"
    /\ IF batch_status # NoJob
       THEN batch_status' = [batch_status EXCEPT !.status = "completed",
                                                 !.end_time = TRUE]
       ELSE batch_status' = [status |-> "completed",
                             current_file |-> w_i,
                             total_files |-> Len(file_list),
                             current_filename |-> "Initializing...",
                             end_time |-> TRUE,
                             error |-> "none"]
    /\ batch_lock' = "free"
    /\ w_pc' = "done"
    /\ UNCHANGED <<completed_files, errors, session, file_list, fsVars, u_pc,
                   w_i, w_exc, c_pc, readerVars, histVars>>
    /\ UNCHANGED otherVars

\* if session_id in batch_status: status = 'completed'; end_time = time.time()
Worker_FinalBody ==
    /\ w_pc = "final_locked"
    /\ IF batch_status # NoJob
       THEN batch_status' = [batch_status EXCEPT !.status = "completed",
                                                 !.end_time = TRUE]
       ELSE UNCHANGED batch_status
    /\ batch_lock' = "free"
    /\ w_pc' = "done"
    /\ UNCHANGED <<completed_files, errors, session, file_list, fsVars, u_pc,
                   w_i, w_exc, c_pc, readerVars, histVars>>
    /\ UNCHANGED otherVars

\* outer except Exception as e: with batch_lock
Worker_OuterAcquire ==
    /\ w_pc = "outer_except"
    /\ batch_lock = "free"
    /\ batch_lock' = "worker"
    /\ w_pc' = "outer_locked"
    /\ UNCHANGED <<jobVars, session, file_list, fsVars, u_pc, w_i, w_exc, c_pc,
                   readerVars, histVars>>
    /\ UNCHANGED otherVars

\* if session_id in batch_status: status = 'error'; error = str(e)
Worker_OuterBody ==
    /\ w_pc = "outer_locked"
    /\ IF batch_status # NoJob
       THEN batch_status' = [batch_status EXCEPT !.status = "error",
                                                 !.error = w_exc]
       ELSE UNCHANGED batch_status
    /\ batch_lock' = "free"
    /\ w_exc' = "none"
    /\ w_pc' = "done"
    /\ UNCHANGED <<completed_files, errors, session, file_list, fsVars, u_pc,
                   w_i, c_pc, readerVars, histVars>>
    /\ UNCHANGED otherVars

----------------------------------------------------------------------------
\* clear_results

\* if 'session_id' in session: clear_session_files begins with
\* shutil.rmtree of the session's upload directory.
Clear_RemoveUploads ==
    /\ c_pc = "idle"
    /\ session = SessionId
    /\ uploads' = [k \in 1..Len(uploads) |-> "absent"]
    /\ cleared' = TRUE
    /\ c_pc' = "rm_results"
    /\ UNCHANGED <<jobVars, batch_lock, session, file_list, results_dir,
                   file_dirs, features_json, png, u_pc, workerVars, readerVars,
                   ctrl_failed, started, outcomes>>
    /\ UNCHANGED otherVars

\* shutil.rmtree of the session's results directory.
Clear_RemoveResults ==
    /\ c_pc = "rm_results"
    /\ results_dir' = FALSE
    /\ file_dirs' = {}
    /\ features_json' = {}
    /\ png' = {}
    /\ c_pc' = "lock"
    /\ UNCHANGED <<jobVars, batch_lock, session, file_list, uploads, u_pc,
                   workerVars, readerVars, histVars>>
    /\ UNCHANGED otherVars

Clear_Acquire ==
    /\ c_pc = "lock"
    /\ batch_lock = "free"
    /\ batch_lock' = "clear"
    /\ c_pc' = "delete"
    /\ UNCHANGED <<jobVars, session, file_list, fsVars, u_pc, workerVars,
                   readerVars, histVars>>
    /\ UNCHANGED otherVars

\* if session_id in batch_status: del batch_status[session_id];
\* then session.clear()
Clear_Delete ==
    /\ c_pc = "delete"
    /\ batch_status' = NoJob
    /\ batch_lock' = "free"
    /\ session' = NoSession
    /\ c_pc' = "idle"
    /\ UNCHANGED <<completed_files, errors, file_list, fsVars, u_pc,
                   workerVars, readerVars, histVars>>
    /\ UNCHANGED otherVars

----------------------------------------------------------------------------
\* get_batch_status and batch_progress
\*
\* Both handlers run the same code up to the copy of the Job record; they
\* differ in what they send back.

Endpoints == {"batch_status", "batch_progress"}

\* A poll, or a request for the results page, arrives; without a session
\* cookie it is answered at once.
Reader_Begin ==
    /\ r_pc = "idle"
    /\ u_pc = "done"
    /\ IF session = NoSession
       THEN /\ response' = [kind |-> "no_session"]
            /\ r_pc' = "idle"
       ELSE /\ r_pc' = "lock"
            /\ response' = NoResponse
    /\ UNCHANGED <<jobVars, batch_lock, session, file_list, fsVars, u_pc,
                   workerVars, c_pc, status, at_copy, last_reported, histVars>>
    /\ UNCHANGED otherVars

Reader_Acquire ==
    /\ r_pc = "lock"
    /\ batch_lock = "free"
    /\ batch_lock' = "reader"
    /\ r_pc' = "copy"
    /\ UNCHANGED <<jobVars, session, file_list, fsVars, u_pc, workerVars, c_pc,
                   status, response, at_copy, last_reported, histVars>>
    /\ UNCHANGED otherVars

\* if session_id not in batch_status: return 'No batch found' (or redirect);
\* status = batch_status[session_id].copy()
Reader_Copy ==
    /\ r_pc = "copy"
    /\ IF batch_status = NoJob
       THEN /\ response' = [kind |-> "not_found"]
            /\ r_pc' = "idle"
            /\ UNCHANGED <<status, at_copy>>
       ELSE /\ status' = batch_status
            /\ at_copy' = <<completed_files, errors>>
            /\ r_pc' = "respond"
            /\ UNCHANGED response
    /\ batch_lock' = "free"
    /\ UNCHANGED <<jobVars, session, file_list, fsVars, u_pc, workerVars, c_pc,
                   last_reported, histVars>>
    /\ UNCHANGED otherVars

\* What status['completed_files'] / status['errors'] yields when the
\* response is built: dict.copy() is shallow, so the copy refers to the Job's
\* own list object (live), not to the list as it stood at the copy (copied).
ListSeen(live, copied) == live

\* The body built from the copy after the lock is released.
StatusBody(st) ==
    [kind |-> "status",
     status |-> st.status,
     current_file |-> st.current_file,
     total_files |-> st.total_files,
     progress |-> Progress(st.current_file, st.total_files),
     completed_files |-> ListSeen(completed_files, at_copy[1]),
     errors |-> ListSeen(errors, at_copy[2]),
     current_filename |-> st.current_filename]

\* get_batch_status returns the body as JSON; batch_progress redirects to
\* the results page once completed and renders the same fields otherwise.
Reader_Respond ==
    /\ r_pc = "respond"
    /\ \E e \in Endpoints :
         IF e = "batch_progress" /\ status.status = "completed"
         THEN /\ response' = [kind |-> "redirect_results"]
              /\ UNCHANGED last_reported
         ELSE /\ response' = StatusBody(status)
              /\ last_reported' = status.current_file
    /\ status' = NoSnapshot
    /\ at_copy' = << >>
    /\ r_pc' = "idle"
    /\ UNCHANGED <<jobVars, batch_lock, session, file_list, fsVars, u_pc,
                   workerVars, c_pc, histVars>>
    /\ UNCHANGED otherVars

----------------------------------------------------------------------------
\* results and handle_batch_results

\* results() reads the cookie and handle_batch_results takes batch_lock as
\* the status handlers do (Reader_Begin, Reader_Acquire); the request then
\* turns out to be one for the results page.
\*
\* if session_id in batch_status and
\*    batch_status[session_id]['status'] != 'completed': redirect to progress
Results_Check ==
    /\ r_pc = "copy"
    /\ IF batch_status # NoJob /\ batch_status.status # "completed"
       THEN /\ response' = [kind |-> "redirect_progress"]
            /\ r_pc' = "idle"
       ELSE /\ r_pc' = "aggregate"
            /\ UNCHANGED response
    /\ batch_lock' = "free"
    /\ UNCHANGED <<jobVars, session, file_list, fsVars, u_pc, workerVars, c_pc,
                   status, at_copy, last_reported, histVars>>
    /\ UNCHANGED otherVars

\* The files of session['files'] whose result directory exists, in order.
RECURSIVE WithDirectory(_)
WithDirectory(k) ==
    IF k = 0 THEN << >>
    ELSE IF FileId(k) \in file_dirs
         THEN Append(WithDirectory(k - 1), k)
         ELSE WithDirectory(k - 1)

\* Those among them whose directory holds features.json, in order.
RECURSIVE WithRecord(_)
WithRecord(k) ==
    IF k = 0 THEN << >>
    ELSE IF FileId(k) \in file_dirs /\ FileId(k) \in features_json
         THEN Append(WithRecord(k - 1), k)
         ELSE WithRecord(k - 1)

\* processed_files: one entry per file whose directory exists; features is
\* {} and features_count 0 when the directory holds no features.json.
ProcessedFiles ==
    LET dirs == WithDirectory(total) IN
      [j \in 1..Len(dirs) |->
          [filename |-> file_list[dirs[j]].original_name,
           file_id |-> FileId(dirs[j]),
           spectrograms |-> FileId(dirs[j]) \in png,
           has_features |-> FileId(dirs[j]) \in features_json]]

\* combined_features: the loaded record of each file that has one, with its
\* display name.
CombinedFeatures ==
    LET recs == WithRecord(total) IN
      [j \in 1..Len(recs) |-> [filename |-> file_list[recs[j]].original_name]]

\* The loop over session['files'] and render_template('batch_results.html').
Results_Aggregate ==
    /\ r_pc = "aggregate"
    /\ response' = [kind |-> "summary",
                    processed_files |-> ProcessedFiles,
                    total_files |-> Len(ProcessedFiles),
                    combined_features |-> CombinedFeatures]
    /\ r_pc' = "idle"
    /\ UNCHANGED <<jobVars, batch_lock, session, file_list, fsVars, u_pc,
                   workerVars, c_pc, status, at_copy, last_reported, histVars>>
    /\ UNCHANGED otherVars

----------------------------------------------------------------------------
Upload ==
    Upload_Save \/ Upload_Acquire \/ Upload_Register \/ Upload_Start

Worker ==
    \/ Worker_MakeDirs
    \/ Worker_LoopAcquire \/ Worker_LoopBody
    \/ Worker_Exists \/ Worker_FileMakeDirs \/ Worker_Spectrograms
    \/ Worker_Features \/ Worker_Write
    \/ Worker_CompletedAcquire \/ Worker_CompletedBody
    \/ Worker_ExceptAcquire \/ Worker_ExceptBody
    \/ Worker_Sleep
    \/ Worker_FinalAcquire \/ Worker_FinalBody
    \/ Worker_OuterAcquire \/ Worker_OuterBody

Clear ==
    Clear_RemoveUploads \/ Clear_RemoveResults \/ Clear_Acquire \/ Clear_Delete

Reader ==
    Reader_Begin \/ Reader_Acquire \/ Reader_Copy \/ Reader_Respond

Results ==
    Results_Check \/ Results_Aggregate

Next == Upload \/ Worker \/ Clear \/ Reader \/ Results

Spec == Init /\ [][Next]_vars

\* Scheduling: the request thread of the upload runs on; the worker thread
\* is scheduled again and again and gets batch_lock when it is free often
\* enough; whoever holds batch_lock leaves its with-block.
Fairness ==
    /\ WF_vars(Upload)
    /\ SF_vars(Worker)
    /\ WF_vars(Reader_Copy \/ Results_Check)
    /\ WF_vars(Clear_Delete)

FairSpec == Spec /\ Fairness

----------------------------------------------------------------------------
\* handle_batch_upload, seen over many upload requests
\*
\* Each request draws its own session id; the registry is keyed by it.

\* Upload requests answered or in progress, at most.
MaxSubmits == 3

MAX_FILES_PER_SESSION == 100

\* len(valid_files) of a request: none, one, the most allowed, one too many.
BatchSizes == {0, 1, MAX_FILES_PER_SESSION, MAX_FILES_PER_SESSION + 1}

\* The k-th value drawn from uuid.uuid4(): no two draws give the same id.
Uuid(k) == "s" \o ToString(k)

InProgress == {c \in Clients : req[c].pc # "idle"}

\* session_id in batch_status
HasJob(sid) == \E r \in registry : r.sid = sid

LogEntry(c, had, had_job, sid, n, result) ==
    [client |-> c, had |-> had, had_job |-> had_job, sid |-> sid, n |-> n,
     result |-> result]

\* Variant of Submit_Validate that keeps the session id of the cookie when
\* there is one, and draws a fresh id only for a client without a session.
Submit_Validate_KeepsSession ==
    \E c \in Clients :
      /\ req[c].pc = "idle"
      /\ Len(submit_log) + Cardinality(InProgress) < MaxSubmits
      /\ \E n \in BatchSizes :
           IF n = 0 \/ n > MAX_FILES_PER_SESSION
           THEN /\ submit_log' =
                     Append(submit_log,
                            LogEntry(c, cookie[c], HasJob(cookie[c]), NoSession, n,
                                     IF n = 0 THEN "no_valid_files"
                                              ELSE "too_many_files"))
                /\ UNCHANGED <<req, uuids>>
           ELSE /\ uuids' = uuids + 1
                /\ req' = [req EXCEPT ![c] =
                              [pc |-> "save",
                               sid |-> IF cookie[c] # NoSession THEN cookie[c]
                                       ELSE Uuid(uuids + 1),
                               n |-> n,
                               had |-> cookie[c], had_job |-> HasJob(cookie[c])]]
                /\ UNCHANGED submit_log
      /\ UNCHANGED <<registry, threads, cookie, batchVars>>
      /\ UNCHANGED renderVars

\* valid_files is filtered and counted; an accepted request draws
\* session_id = str(uuid.uuid4()), a value no earlier request has drawn.
Submit_Validate ==
    \E c \in Clients :
      /\ req[c].pc = "idle"
      /\ Len(submit_log) + Cardinality(InProgress) < MaxSubmits
      /\ \E n \in BatchSizes :
           IF n = 0 \/ n > MAX_FILES_PER_SESSION
           THEN /\ submit_log' =
                     Append(submit_log,
                            LogEntry(c, cookie[c], HasJob(cookie[c]), NoSession, n,
                                     IF n = 0 THEN "no_valid_files"
                                              ELSE "too_many_files"))
                /\ UNCHANGED <<req, uuids>>
           ELSE /\ uuids' = uuids + 1
                /\ req' = [req EXCEPT ![c] =
                              [pc |-> "save", sid |-> Uuid(uuids + 1), n |-> n,
                               had |-> cookie[c], had_job |-> HasJob(cookie[c])]]
                /\ UNCHANGED submit_log
      /\ UNCHANGED <<registry, threads, cookie, batchVars>>
      /\ UNCHANGED renderVars

\* saved_files = save_uploaded_files(valid_files, session_id); an exception
\* is answered with the error page, and the response carries the new cookie.
Submit_Save ==
    \E c \in Clients :
      /\ req[c].pc = "save"
      /\ \E ok \in BOOLEAN :
           IF ok
           THEN /\ req' = [req EXCEPT ![c].pc = "lock"]
                /\ UNCHANGED <<cookie, submit_log>>
           ELSE /\ req' = [req EXCEPT ![c] = NoRequest]
                /\ cookie' = [cookie EXCEPT ![c] = req[c].sid]
                /\ submit_log' =
                     Append(submit_log,
                            LogEntry(c, req[c].had, req[c].had_job, req[c].sid,
                                     req[c].n, "upload_error"))
      /\ UNCHANGED <<registry, threads, uuids, batchVars>>
      /\ UNCHANGED renderVars

Submit_Acquire ==
    \E c \in Clients :
      /\ req[c].pc = "lock"
      /\ batch_lock = "free"
      /\ batch_lock' = c
      /\ req' = [req EXCEPT ![c].pc = "register"]
      /\ UNCHANGED <<registry, threads, cookie, uuids, submit_log, noLockVars>>
      /\ UNCHANGED renderVars

\* batch_status[session_id] = {...}: a dict assignment, which replaces an
\* entry already stored under the key.
Submit_Register ==
    \E c \in Clients :
      /\ req[c].pc = "register"
      /\ registry' = {r \in registry : r.sid # req[c].sid}
                        \cup {[sid |-> req[c].sid, total_files |-> req[c].n]}
      /\ batch_lock' = "free"
      /\ req' = [req EXCEPT ![c].pc = "start"]
      /\ UNCHANGED <<threads, cookie, uuids, submit_log, noLockVars>>
      /\ UNCHANGED renderVars

\* thread.start(), then the redirect to the progress page with the cookie.
Submit_Start ==
    \E c \in Clients :
      /\ req[c].pc = "start"
      /\ threads' = Append(threads, req[c].sid)
      /\ cookie' = [cookie EXCEPT ![c] = req[c].sid]
      /\ submit_log' =
             Append(submit_log,
                    LogEntry(c, req[c].had, req[c].had_job, req[c].sid,
                             req[c].n, "started"))
      /\ req' = [req EXCEPT ![c] = NoRequest]
      /\ UNCHANGED <<registry, uuids, batchVars>>
      /\ UNCHANGED renderVars

SubmitNext ==
    \/ Submit_Validate \/ Submit_Save \/ Submit_Acquire
    \/ Submit_Register \/ Submit_Start

SubmitSpec == Init /\ [][SubmitNext]_vars

----------------------------------------------------------------------------
\* One file's pipeline: generate_all_spectrograms(audio_path, session_id,
\* file_id, denoise=True, denoising_method), then
\* extract_all_features(audio_path)

\* The keys of the dict spectrograms, in its order.
Kinds == <<"mel", "cqt", "log_stft", "wavelet", "spectral_kurtosis",
           "modulation">>

KindSet == {Kinds[j] : j \in 1..Len(Kinds)}

\* librosa.load(audio_path, sr=None): the decoded samples of the file.
Load == [source |-> "file", denoised |-> FALSE]

\* The values of denoising_method: the two strategies and a name
\* apply_denoising does not know.
Methods == {"spectral_gating", "simple_gate", "median"}

\* denoise_audio_spectral_gating and denoise_audio_simple_gate: the gated
\* signal, or, from the handler of an exception raised inside, the signal
\* that was passed in.
DenoiseAudio(samples, outcome) ==
    IF outcome = "ok" THEN [samples EXCEPT !.denoised = TRUE] ELSE samples

\* Variant of ApplyDenoising for a denoiser that fails hard: after an
\* internal failure or for an unknown method there is no signal.
ApplyDenoising_FailsHard(samples, method, outcome) ==
    IF method \in {"spectral_gating", "simple_gate"} /\ outcome = "ok"
    THEN [samples EXCEPT !.denoised = TRUE]
    ELSE NoSamples

\* apply_denoising(y, sr, method, noise_db_threshold): dispatch on the
\* method; an unknown method gives back y itself.
ApplyDenoising(samples, method, outcome) ==
    IF method \in {"spectral_gating", "simple_gate"}
    THEN DenoiseAudio(samples, outcome)
    ELSE samples

\* The pipeline is called on an upload.
Pipeline_Call ==
    /\ p_pc = "idle"
    /\ \E content \in {"ok", "corrupt"}, fails \in SUBSET KindSet,
          d \in {"ok", "raises"}, m \in Methods :
         /\ audio' = content
         /\ fail_kinds' = fails
         /\ denoiser' = d
         /\ denoising_method' = m
    /\ p_pc' = "load"
    /\ UNCHANGED <<spec_idx, y, written, spectrogram_paths, attempted,
                   renderer_input, extractor_input, features>>
    /\ UNCHANGED <<batchVars, submitVars>>

\* y, sr = librosa.load(audio_path, sr=None); a file that cannot be decoded
\* raises into the outer handler, which returns {}.
Render_Load ==
    /\ p_pc = "load"
    /\ IF audio = "corrupt"
       THEN /\ p_pc' = "features"
            /\ UNCHANGED y
       ELSE /\ y' = Load
            /\ p_pc' = "denoise"
    /\ UNCHANGED <<audio, fail_kinds, denoiser, denoising_method, spec_idx, written,
                   spectrogram_paths, attempted, renderer_input,
                   extractor_input, features>>
    /\ UNCHANGED <<batchVars, submitVars>>

\* if denoise: y = apply_denoising(y, sr, ...); os.makedirs(results_dir)
Render_Denoise ==
    /\ p_pc = "denoise"
    /\ y' = ApplyDenoising(y, denoising_method, denoiser)
    /\ spec_idx' = 1
    /\ p_pc' = "loop"
    /\ UNCHANGED <<audio, fail_kinds, denoiser, denoising_method, written, spectrogram_paths,
                   attempted, renderer_input, extractor_input, features>>
    /\ UNCHANGED <<batchVars, submitVars>>

\* Variant of Render_Kind in which a renderer lets its exception out and the
\* loop has no handler of its own: the first failing kind ends the function
\* in the outer handler, which returns {}.
Render_Kind_Aborts ==
    /\ p_pc = "loop"
    /\ LET kind == Kinds[spec_idx] IN
         /\ attempted' = attempted \cup {kind}
         /\ renderer_input' = y
         /\ IF kind \in fail_kinds
            THEN /\ spectrogram_paths' = {}
                 /\ p_pc' = "features"
                 /\ UNCHANGED <<written, spec_idx>>
            ELSE /\ written' = written \cup {kind}
                 /\ spectrogram_paths' = spectrogram_paths \cup {kind}
                 /\ spec_idx' = spec_idx + 1
                 /\ p_pc' = IF spec_idx = Len(Kinds) THEN "features" ELSE "loop"
    /\ UNCHANGED <<audio, fail_kinds, denoiser, denoising_method, y, extractor_input,
                   features>>
    /\ UNCHANGED <<batchVars, submitVars>>

\* One iteration of the loop: spec_info['function'](y, sr, save_path), then
\* spectrogram_paths[spec_type] = {...}.  A renderer catches whatever its
\* body raises, so the call returns and the key is entered whether or not
\* plt.savefig wrote the image.
Render_Kind ==
    /\ p_pc = "loop"
    /\ LET kind == Kinds[spec_idx] IN
         /\ attempted' = attempted \cup {kind}
         /\ renderer_input' = y
         /\ written' = IF kind \in fail_kinds THEN written
                       ELSE written \cup {kind}
         /\ spectrogram_paths' = spectrogram_paths \cup {kind}
    /\ spec_idx' = spec_idx + 1
    /\ p_pc' = IF spec_idx = Len(Kinds) THEN "features" ELSE "loop"
    /\ UNCHANGED <<audio, fail_kinds, denoiser, denoising_method, y, extractor_input,
                   features>>
    /\ UNCHANGED <<batchVars, submitVars>>

\* {**a, **b}: the keys of both, the value of b where both have the key.
Merge(a, b) ==
    [k \in (DOMAIN a) \cup (DOMAIN b) |-> IF k \in DOMAIN b THEN b[k] ELSE a[k]]

\* A dict with the given keys, all with the same kind of value.
Dict(keys, v) == [k \in keys |-> v]

\* extract_time_domain_features: twelve keys, no branch.
TimeDomainFeatures ==
    Dict({"rms", "energy", "zero_crossing_rate", "mean", "std", "skewness",
          "kurtosis", "max_amplitude", "min_amplitude", "peak_to_peak",
          "envelope_mean", "envelope_std"}, "value")

\* features[f'mfcc_{i+1}_mean'], features[f'mfcc_{i+1}_std'] for i in range(13)
MfccKeys ==
    UNION {{"mfcc_" \o ToString(i) \o "_mean", "mfcc_" \o ToString(i) \o "_std"} :
             i \in 1..13}

\* Variant of FrequencyDomainFeatures without the else branch: with no
\* pitch found, the two fundamental-frequency keys are not set.
FrequencyDomainFeatures_NoElse(pitch_found) ==
    Merge(Dict({"spectral_centroid_mean", "spectral_centroid_std",
                "spectral_bandwidth_mean", "spectral_bandwidth_std",
                "spectral_rolloff_mean", "spectral_rolloff_std",
                "spectral_contrast_mean", "spectral_contrast_std",
                "spectral_flatness_mean", "spectral_flatness_std",
                "chroma_mean", "chroma_std", "tonnetz_mean", "tonnetz_std"}
                 \cup MfccKeys, "value"),
          IF pitch_found
          THEN Dict({"fundamental_freq_mean", "fundamental_freq_std"}, "value")
          ELSE << >>)

\* extract_frequency_domain_features: the spectral statistics, the MFCCs,
\* chroma, tonnetz, and the fundamental frequency, which is 0.0 when
\* pitch_values is empty.
FrequencyDomainFeatures(pitch_found) ==
    Merge(Dict({"spectral_centroid_mean", "spectral_centroid_std",
                "spectral_bandwidth_mean", "spectral_bandwidth_std",
                "spectral_rolloff_mean", "spectral_rolloff_std",
                "spectral_contrast_mean", "spectral_contrast_std",
                "spectral_flatness_mean", "spectral_flatness_std",
                "chroma_mean", "chroma_std", "tonnetz_mean", "tonnetz_std"}
                 \cup MfccKeys, "value"),
          Dict({"fundamental_freq_mean", "fundamental_freq_std"},
               IF pitch_found THEN "value" ELSE "zero"))

\* extract_fault_specific_features: inf for zero percussive energy, 0.0 for
\* no frame, zero total energy and no spectral peak.
FaultSpecificFeatures(noise_energy, frames, total_energy, peaks) ==
    Merge(Merge(Dict({"harmonic_noise_ratio"},
                     IF noise_energy THEN "value" ELSE "inf"),
                Dict({"spectral_irregularity_mean", "spectral_irregularity_std"},
                     IF frames THEN "value" ELSE "zero")),
          Merge(Dict({"low_freq_energy_ratio"},
                     IF total_energy THEN "value" ELSE "zero"),
                ("spectral_peaks_mean" :> (IF peaks THEN "value" ELSE "zero"))
                  @@ ("spectral_peaks_count" :> (IF peaks THEN "value" ELSE "zero"))))

\* extract_all_features: the three dicts merged, then duration, sample_rate
\* and n_samples.
ExtractAllFeatures(pitch_found, noise_energy, frames, total_energy, peaks) ==
    Merge(Merge(Merge(TimeDomainFeatures, FrequencyDomainFeatures(pitch_found)),
                FaultSpecificFeatures(noise_energy, frames, total_energy, peaks)),
          Dict({"duration", "sample_rate", "n_samples"}, "value"))

\* features_df = extract_all_features(audio_path): the extractor loads the
\* file itself; a file that cannot be decoded raises to the caller.  What
\* the signal is like decides the branches: a pitch found in some frame,
\* percussive energy above zero, at least one STFT frame, total spectral
\* energy above zero, at least one spectral peak.
Pipeline_Features ==
    /\ p_pc = "features"
    /\ IF audio = "corrupt"
       THEN /\ p_pc' = "failed"
            /\ UNCHANGED <<extractor_input, features>>
       ELSE /\ extractor_input' = Load
            /\ \E pitch_found, noise_energy, frames, total_energy, peaks
                    \in BOOLEAN :
                 features' = ExtractAllFeatures(pitch_found, noise_energy,
                                                frames, total_energy, peaks)
            /\ p_pc' = "done"
    /\ UNCHANGED <<audio, fail_kinds, denoiser, denoising_method, spec_idx, y,
                   written, spectrogram_paths, attempted, renderer_input>>
    /\ UNCHANGED <<batchVars, submitVars>>

RenderNext ==
    \/ Pipeline_Call \/ Render_Load \/ Render_Denoise \/ Render_Kind
    \/ Pipeline_Features

RenderSpec == Init /\ [][RenderNext]_vars

----------------------------------------------------------------------------
\* BatchProcessor: the other controller of a batch
\*
\* A third view: the Job is registered as by handle_batch_upload, and the
\* thread runs BatchProcessor(session_id, file_list).process_batch instead
\* of process_batch_files.  process_single_file is the same per-file
\* pipeline, statement for statement, so its steps are those of the worker
\* above (Worker_Exists to Worker_Write); the controller around it takes no
\* lock and never tests whether the session is still registered, so each
\* of its statements that indexes batch_status[self.session_id] raises
\* KeyError once Clear has removed the record.

\* thread.start() with process_batch as the target.  The constructor has
\* created the session's results directory.
Proc_Start ==
    /\ u_pc = "start"
    /\ results_dir' = TRUE
    /\ w_pc' = "bp_loop"
    /\ session' = SessionId
    /\ u_pc' = "done"
    /\ UNCHANGED <<jobVars, batch_lock, file_list, uploads, file_dirs,
                   features_json, png, w_i, w_exc, c_pc, readerVars, histVars>>
    /\ UNCHANGED otherVars

\* for i, file_info in enumerate(self.file_list)
Proc_Loop ==
    /\ w_pc = "bp_loop"
    /\ w_pc' = IF w_i < Len(file_list) THEN "bp_index" ELSE "bp_final"
    /\ UNCHANGED <<jobVars, batch_lock, session, file_list, fsVars, u_pc, w_i,
                   w_exc, c_pc, readerVars, histVars>>
    /\ UNCHANGED otherVars

\* batch_status[self.session_id]['current_file'] = i + 1
Proc_SetIndex ==
    /\ w_pc = "bp_index"
    /\ IF batch_status = NoJob
       THEN /\ w_pc' = "bp_outer"
            /\ w_exc' = "KeyError"
            /\ UNCHANGED batch_status
       ELSE /\ batch_status' = [batch_status EXCEPT !.current_file = w_i + 1]
            /\ w_pc' = "bp_status"
            /\ UNCHANGED w_exc
    /\ UNCHANGED <<completed_files, errors, batch_lock, session, file_list,
                   fsVars, u_pc, w_i, c_pc, readerVars, histVars>>
    /\ UNCHANGED otherVars

\* batch_status[self.session_id]['status'] = 'processing'
Proc_SetStatus ==
    /\ w_pc = "bp_status"
    /\ IF batch_status = NoJob
       THEN /\ w_pc' = "bp_outer"
            /\ w_exc' = "KeyError"
            /\ UNCHANGED batch_status
       ELSE /\ batch_status' = [batch_status EXCEPT !.status = "processing"]
            /\ w_pc' = "bp_name"
            /\ UNCHANGED w_exc
    /\ UNCHANGED <<completed_files, errors, batch_lock, session, file_list,
                   fsVars, u_pc, w_i, c_pc, readerVars, histVars>>
    /\ UNCHANGED otherVars

\* batch_status[self.session_id]['current_filename'] = original_filename;
\* then process_single_file begins.
Proc_SetName ==
    /\ w_pc = "bp_name"
    /\ IF batch_status = NoJob
       THEN /\ w_pc' = "bp_outer"
            /\ w_exc' = "KeyError"
            /\ UNCHANGED <<batch_status, started>>
       ELSE /\ batch_status' =
                  [batch_status EXCEPT
                      !.current_filename = file_list[CurFile].original_name]
            /\ started' = Append(started, CurFile)
            /\ w_pc' = "exists"
            /\ UNCHANGED w_exc
    /\ UNCHANGED <<completed_files, errors, batch_lock, session, file_list,
                   fsVars, u_pc, w_i, c_pc, readerVars, cleared, ctrl_failed,
                   outcomes>>
    /\ UNCHANGED otherVars

\* batch_status[self.session_id]['completed_files'].append(original_filename),
\* inside the inner try: a KeyError goes to the inner handler.
Proc_Completed ==
    /\ w_pc = "completed"
    /\ IF batch_status = NoJob
       THEN /\ w_pc' = "except"
            /\ w_exc' = "KeyError"
            /\ UNCHANGED completed_files
       ELSE /\ completed_files' =
                  Append(completed_files, file_list[CurFile].original_name)
            /\ w_pc' = "sleep"
            /\ UNCHANGED w_exc
    /\ UNCHANGED <<batch_status, errors, batch_lock, session, file_list,
                   fsVars, u_pc, w_i, c_pc, readerVars, histVars>>
    /\ UNCHANGED otherVars

\* except Exception as e: batch_status[self.session_id]['errors'].append(...);
\* a KeyError raised in the handler goes to the outer handler.
Proc_Except ==
    /\ w_pc = "except"
    /\ IF batch_status = NoJob
       THEN /\ w_pc' = "bp_outer"
            /\ w_exc' = "KeyError"
            /\ UNCHANGED errors
       ELSE /\ errors' =
                  Append(errors, ErrorMsg(file_list[CurFile].original_name, w_exc))
            /\ w_pc' = "sleep"
            /\ w_exc' = "none"
    /\ UNCHANGED <<batch_status, completed_files, batch_lock, session,
                   file_list, fsVars, u_pc, w_i, c_pc, readerVars, histVars>>
    /\ UNCHANGED otherVars

\* time.sleep(0.1), then the next iteration.
Proc_Sleep ==
    /\ w_pc = "sleep"
    /\ w_i' = w_i + 1
    /\ w_pc' = "bp_loop"
    /\ UNCHANGED <<jobVars, batch_lock, session, file_list, fsVars, u_pc,
                   w_exc, c_pc, readerVars, histVars>>
    /\ UNCHANGED otherVars

\* batch_status[self.session_id]['status'] = 'completed'
Proc_FinalStatus ==
    /\ w_pc = "bp_final"
    /\ IF batch_status = NoJob
       THEN /\ w_pc' = "bp_outer"
            /\ w_exc' = "KeyError"
            /\ UNCHANGED batch_status
       ELSE /\ batch_status' = [batch_status EXCEPT !.status = "completed"]
            /\ w_pc' = "bp_end_time"
            /\ UNCHANGED w_exc
    /\ UNCHANGED <<completed_files, errors, batch_lock, session, file_list,
                   fsVars, u_pc, w_i, c_pc, readerVars, histVars>>
    /\ UNCHANGED otherVars

\* batch_status[self.session_id]['end_time'] = time.time()
Proc_FinalTime ==
    /\ w_pc = "bp_end_time"
    /\ IF batch_status = NoJob
       THEN /\ w_pc' = "bp_outer"
            /\ w_exc' = "KeyError"
            /\ UNCHANGED batch_status
       ELSE /\ batch_status' = [batch_status EXCEPT !.end_time = TRUE]
            /\ w_pc' = "done"
            /\ UNCHANGED w_exc
    /\ UNCHANGED <<completed_files, errors, batch_lock, session, file_list,
                   fsVars, u_pc, w_i, c_pc, readerVars, histVars>>
    /\ UNCHANGED otherVars

\* except Exception as e: batch_status[self.session_id]['status'] = 'error';
\* ['error'] = str(e).  The handler indexes the registry too: with the
\* record gone it raises KeyError itself, and that one leaves process_batch.
Proc_Outer ==
    /\ w_pc = "bp_outer"
    /\ IF batch_status = NoJob
       THEN /\ w_pc' = "escaped"
            /\ UNCHANGED <<batch_status, w_exc>>
       ELSE /\ batch_status' = [batch_status EXCEPT !.status = "error",
                                                    !.error = w_exc]
            /\ w_pc' = "done"
            /\ w_exc' = "none"
    /\ UNCHANGED <<completed_files, errors, batch_lock, session, file_list,
                   fsVars, u_pc, w_i, c_pc, readerVars, histVars>>
    /\ UNCHANGED otherVars

ProcNext ==
    \/ Upload_Save \/ Upload_Acquire \/ Upload_Register \/ Proc_Start
    \/ Proc_Loop \/ Proc_SetIndex \/ Proc_SetStatus \/ Proc_SetName
    \/ Worker_Exists \/ Worker_FileMakeDirs \/ Worker_Spectrograms
    \/ Worker_Features \/ Worker_Write
    \/ Proc_Completed \/ Proc_Except \/ Proc_Sleep
    \/ Proc_FinalStatus \/ Proc_FinalTime \/ Proc_Outer
    \/ Clear_RemoveUploads \/ Clear_RemoveResults \/ Clear_Acquire
    \/ Clear_Delete

ProcSpec == Init /\ [][ProcNext]_vars

----------------------------------------------------------------------------
\* Properties

JobExists == batch_status # NoJob
JobStatus == IF JobExists THEN batch_status.status ELSE "absent"
Terminal == {"completed", "error"}
Recorded == Len(completed_files) + Len(errors)
FailedOutcomes == {j \in 1..Len(outcomes) : outcomes[j].result # "ok"}

\* C1: the status of a Job only moves forward.  A record enters the
\* registry with status 'processing'; every step that keeps the record
\* either leaves the status alone or takes it from 'processing' to
\* 'completed' or 'error'; a terminal status never changes again.
C1_StatusStep ==
    /\ (~JobExists /\ JobExists') => batch_status'.status = "processing"
    /\ (JobExists /\ JobExists') =>
          \/ batch_status'.status = batch_status.status
          \/ /\ batch_status.status = "processing"
             /\ batch_status'.status \in Terminal

C1_StatusForward == [][C1_StatusStep]_vars

\* A poll saw 'processing', Clear has begun, and the Job is now completed.
C1_Witness ==
    /\ JobStatus = "completed"
    /\ cleared
    /\ response.kind = "status"
    /\ response.status = "processing"

\* C2: per-file failures, however many, leave the status alone; the status
\* is 'error' only after os.makedirs(results_dir) failed in the worker, and
\* then no file was ever attempted.
C2_ErrorOnlyFromController ==
    /\ JobStatus = "error" => (ctrl_failed /\ outcomes = << >>)
    /\ (JobExists /\ FailedOutcomes # {} /\ w_pc # "done")
          => batch_status.status = "processing"
    /\ (JobExists /\ FailedOutcomes # {} /\ w_pc = "done")
          => batch_status.status = "completed"

\* Every file of a batch of at least two failed, one of each kind of failure
\* is possible, and the Job still ended 'completed'.
C2_Witness ==
    /\ JobStatus = "completed"
    /\ batch_status.total_files >= 2
    /\ Len(errors) = batch_status.total_files
    /\ \E j \in 1..Len(errors) : errors[j].exc = "write"


\* The worker is between recording a file's index and recording its outcome.
InPipeline ==
    w_pc \in {"exists", "file_makedirs", "spectrograms", "features", "write",
              "completed", "completed_locked", "except", "except_locked"}

\* C3: the worker attempts the files one at a time, each once, in list
\* order: the files started so far are 1, 2, ... in that order; while the
\* Job record exists, exactly the outcomes of the files before the current
\* one are recorded while a file is in progress, and the outcomes of all
\* started files otherwise, so file k+1 starts only after the outcome of
\* file k is in one of the two lists; and a worker that ends without Clear
\* or controller failure has attempted every file.
C3_SequentialOnce ==
    /\ Len(started) <= total
    /\ \A j \in 1..Len(started) : started[j] = j
    /\ \A j \in 1..Len(outcomes) : outcomes[j].file = j
    /\ Len(outcomes) \in {Len(started) - 1, Len(started)}
    /\ JobExists =>
          Recorded = IF InPipeline THEN Len(started) - 1 ELSE Len(started)
    /\ (w_pc = "done" /\ ~cleared /\ ~ctrl_failed) =>
          (Len(started) = total /\ Recorded = total)

\* Two files, the first failed, the second was still attempted and
\* succeeded, and the worker has ended.
C3_Witness ==
    /\ w_pc = "done"
    /\ ~cleared
    /\ started = <<1, 2>>
    /\ outcomes[1].result # "ok"
    /\ outcomes[2].result = "ok"
    /\ Len(errors) = 1
    /\ Len(completed_files) = 1

\* The batch in which exactly file k cannot be decoded: every other upload
\* is good, no Clear, no controller failure, no storage failure.
OnlyFileFailsDecode(k) ==
    /\ ~cleared
    /\ ~ctrl_failed
    /\ k \in 1..total
    /\ \A j \in 1..total : uploads[j] = IF j = k THEN "corrupt" ELSE "ok"
    /\ \A j \in 1..Len(outcomes) : outcomes[j].result # "write"

\* The display names of all files but file k, in list order.
NamesExcept(k) ==
    [j \in 1..(total - 1) |->
        file_list[IF j < k THEN j ELSE j + 1].original_name]

\* C4: when exactly file k fails to decode and the worker has ended, the
\* Job is 'completed', errors holds one message and it names file k,
\* completed_files holds the other names in order, and each other file has
\* its features.json in its own result directory.
C4_OneCorruptFile ==
    \A k \in 1..total :
        (w_pc = "done" /\ OnlyFileFailsDecode(k)) =>
            /\ JobStatus = "completed"
            /\ Len(errors) = 1
            /\ errors[1].name = file_list[k].original_name
            /\ errors[1].exc = "decode"
            /\ completed_files = NamesExcept(k)
            /\ \A j \in (1..total) \ {k} :
                  /\ FileId(j) \in file_dirs
                  /\ FileId(j) \in features_json
            /\ FileId(k) \notin features_json

\* A two-file batch whose first file is corrupt has run to its end.
C4_Witness ==
    /\ w_pc = "done"
    /\ total = 2
    /\ OnlyFileFailsDecode(1)
    /\ JobStatus = "completed"
    /\ features_json = {2}


\* C5: under fair scheduling every registered Job reaches 'completed' or
\* 'error', unless Clear is called for its session.
C5_ReachesTerminal ==
    JobExists ~> (cleared \/ JobStatus \in Terminal)

\* Every file of a batch of two failed to decode, nobody cleared the
\* session, and the Job is terminal.
C5_Witness ==
    /\ ~cleared
    /\ JobStatus \in Terminal
    /\ total = 2
    /\ Len(errors) = 2
    /\ \A j \in 1..2 : errors[j].exc = "decode"


\* C6: a Job whose status is 'completed' has an end time, its current_file
\* equals total_files, and completed_files and errors together hold
\* total_files entries.
C6_CompletedMeansListDone ==
    JobStatus = "completed" =>
        /\ batch_status.end_time
        /\ batch_status.current_file = batch_status.total_files
        /\ Recorded = batch_status.total_files

\* A completed Job of two files, one of which failed.
C6_Witness ==
    /\ JobStatus = "completed"
    /\ batch_status.total_files = 2
    /\ Len(errors) = 1
    /\ Len(completed_files) = 1

\* C7: each status body the polling client receives carries a current_file
\* that is at least the one of the status body before it and at most
\* total_files.
C7_ReportStep ==
    response'.kind = "status" =>
        /\ response'.current_file >= last_reported
        /\ response'.current_file <= response'.total_files

C7_IndexMonotone == [][C7_ReportStep]_vars

\* The client has been told index 1 of a two-file batch, and the poll being
\* answered has copied index 2.
C7_Witness ==
    /\ status # NoSnapshot
    /\ status.total_files = 2
    /\ last_reported = 1
    /\ r_pc = "respond"
    /\ status.current_file = 2

\* C8 as stated: current_file = total_files only in a terminal status.
C8_IndexTotalOnlyTerminal ==
    (JobExists /\ batch_status.current_file = batch_status.total_files)
        => batch_status.status \in Terminal

\* C8, amended: current_file = total_files only once the worker has
\* recorded the index of the last file, that is once the outcome of every
\* earlier file is recorded; the status is then 'processing' while the last
\* file is in progress or 'completed' after it, never 'error'.
C8_IndexTotalFromLastFile ==
    (JobExists /\ batch_status.current_file = batch_status.total_files) =>
        /\ Len(started) = batch_status.total_files
        /\ Recorded >= batch_status.total_files - 1
        /\ batch_status.status # "error"
        /\ batch_status.status = "completed" <=> w_pc = "done"

\* The last of two files is in progress: the index equals the total and the
\* status is still 'processing'.
C8_Witness ==
    /\ JobExists
    /\ batch_status.total_files = 2
    /\ batch_status.current_file = 2
    /\ batch_status.status = "processing"
    /\ w_pc = "features"

\* C9: the entries of completed_files and errors together never outnumber
\* total_files.
C9_RecordedAtMostTotal ==
    JobExists => Recorded <= batch_status.total_files

\* Both outcomes of a two-file batch are recorded and the Job is not yet
\* marked completed.
C9_Witness ==
    /\ JobStatus = "processing"
    /\ batch_status.total_files = 2
    /\ Recorded = 2

\* C10 as stated: the lists a reader uses after releasing the lock are the
\* lists of the instant of its copy, and no response shows more outcomes
\* than its own current_file.
C10_ReaderSeesSnapshot ==
    /\ r_pc = "respond" =>
          /\ ListSeen(completed_files, at_copy[1]) = at_copy[1]
          /\ ListSeen(errors, at_copy[2]) = at_copy[2]
    /\ response.kind = "status" =>
          Len(response.completed_files) + Len(response.errors)
              <= response.current_file

\* Positions at which the next step of a thread reads or writes the Job
\* record, the registry or one of the Job's two list objects.
WorkerAccessing ==
    w_pc \in {"loop_locked", "completed_locked", "except_locked",
              "final_locked", "outer_locked"}
UploadAccessing == u_pc = "register"
ClearAccessing == c_pc = "delete"
ReaderCopying == r_pc = "copy"

\* Building the response reads the Job's own list objects whenever the copy
\* shares them with the Job record.
ReaderReadingLists ==
    r_pc = "respond" /\ ListSeen("live", "copied") = "live"

\* C11 as stated: every thread that is about to read or write the Job record,
\* the registry or the Job's lists holds batch_lock, so a read of the lists
\* by a status query never coincides with the worker's locked block that
\* appends to them.
C11_AccessUnderLock ==
    /\ WorkerAccessing => batch_lock = "worker"
    /\ UploadAccessing => batch_lock = "upload"
    /\ ClearAccessing => batch_lock = "clear"
    /\ ReaderCopying => batch_lock = "reader"
    /\ ReaderReadingLists => batch_lock = "reader"
    /\ ~(ReaderReadingLists /\ WorkerAccessing)

\* C12: the worker looks for cancellation only in the locked block at the
\* head of an iteration: it leaves the loop early only from there and only
\* when the Job record is gone.  A file whose pipeline has begun is never
\* abandoned, whenever Clear arrives: the worker leaves the pipeline only
\* towards the end of the iteration, and by then the file has its outcome.
C12_Step ==
    /\ (w_pc # "final" /\ w_pc' = "final") => w_pc \in {"loop_locked", "sleep"}
    /\ (w_pc = "loop_locked" /\ w_pc' = "final") => ~JobExists
    /\ (w_pc = "sleep" /\ w_pc' = "final") => w_i' = total
    /\ (InPipeline /\ ~InPipeline') =>
          /\ w_pc' = "sleep"
          /\ Len(outcomes') = Len(started')
          /\ outcomes'[Len(outcomes')].file = CurFile

C12_CancelOnlyBetweenFiles == [][C12_Step]_vars

\* Clear removed the Job record while the first of two files was in its
\* pipeline (the worker has not held the lock since it recorded the file's
\* index); the file ran on and its features.json was written.
C12_Witness ==
    /\ cleared
    /\ ~JobExists
    /\ total = 2
    /\ w_pc = "completed_locked"
    /\ started = <<1>>
    /\ outcomes = <<[file |-> 1, result |-> "ok"]>>

\* C13: once Clear has removed the Job record, the record never comes back;
\* every status query that looks the session up from then on is answered
\* 'not found' and no status body is sent for a lookup made after the
\* removal (only a query that had copied the record before the removal can
\* still send one); and the worker starts no further file: only a file already in
\* its pipeline is finished, and its outcome is appended to neither list.
C13_Step ==
    (cleared /\ ~JobExists) =>
        /\ ~JobExists'
        /\ started' = started
        /\ completed_files' = completed_files
        /\ errors' = errors
        /\ (r_pc = "copy" /\ r_pc' \notin {"copy", "aggregate"}) =>
              (response'.kind = "not_found" /\ r_pc' = "idle")
        /\ r_pc # "respond" => r_pc' # "respond"

C13_AfterClearNotFound == [][C13_Step]_vars

\* After the removal a status query was answered 'not found', and the worker
\* has ended having started only the first of two files.
C13_Witness ==
    /\ cleared
    /\ ~JobExists
    /\ response.kind = "not_found"
    /\ w_pc = "done"
    /\ total = 2
    /\ started = <<1>>

\* Positions of thread ids and log entries.
Started == {j \in 1..Len(submit_log) : submit_log[j].result = "started"}
ThreadsFor(sid) == {i \in 1..Len(threads) : threads[i] = sid}

C15_Step ==
    /\ (r_pc = "copy" /\ r_pc' = "aggregate") => JobStatus = "completed"
    /\ (response' # response /\ response'.kind = "summary") =>
          r_pc = "aggregate"

C15_SummaryOnlyWhenCompleted == [][C15_Step]_vars

\* C16 as stated, for a session nobody cleared: the per-file summary list
\* and the combined feature table of a summary have the same entries, one
\* per file that has a feature record: no file without a record appears in
\* either.
C16_SummaryOmitsRecordless ==
    (response.kind = "summary" /\ ~cleared) =>
        /\ Len(response.processed_files) = Len(response.combined_features)
        /\ response.total_files = Len(response.combined_features)
        /\ \A j \in 1..Len(response.processed_files) :
              response.processed_files[j].has_features

\* The failed pipelines so far, in the order in which they ended.
Failed == SelectSeq(outcomes, LAMBDA o : o.result # "ok")

\* The worker has caught a failure and not yet appended its message.
FailurePending == w_pc \in {"except", "except_locked"}

\* C17: while the Job record exists, the error list holds exactly one
\* message per failed pipeline, in file order, each naming its file and
\* carrying the exception; only the failure the worker is handling at this
\* moment is still missing; messages of different files differ in the name.
C17_FailuresRecorded ==
    JobExists =>
        /\ Len(errors) = Len(Failed) - (IF FailurePending THEN 1 ELSE 0)
        /\ \A j \in 1..Len(errors) :
              /\ errors[j] = ErrorMsg(file_list[Failed[j].file].original_name,
                                      Failed[j].result)
              /\ errors[j].name = DisplayName(Failed[j].file)
        /\ \A j, k \in 1..Len(errors) :
              j < k => (Failed[j].file < Failed[k].file
                        /\ errors[j].name # errors[k].name)

\* Both files of a batch failed, for different reasons; the Job holds the
\* two messages in file order.
C17_Witness ==
    /\ JobExists
    /\ total = 2
    /\ Len(errors) = 2
    /\ errors[1].name = "audio1.wav"
    /\ errors[2].name = "audio2.wav"
    /\ errors[1].exc = "decode"
    /\ errors[2].exc = "feature"

\* generate_all_spectrograms has returned from its loop.
Rendered == p_pc \in {"features", "done"} /\ audio = "ok"

\* The kinds the loop has been through so far.
KindsBefore(k) == {Kinds[j] : j \in 1..(k - 1)}

\* C18: whatever subset of the six kinds fails to render, every kind is
\* attempted, in order, and every kind that does not fail has its image
\* written: inside the loop this holds of the kinds already gone through,
\* and after it of all six.
C18_OtherKindsStillWritten ==
    /\ p_pc = "loop" =>
          /\ attempted = KindsBefore(spec_idx)
          /\ written = KindsBefore(spec_idx) \ fail_kinds
    /\ Rendered =>
          /\ attempted = KindSet
          /\ written = KindSet \ fail_kinds

\* The first, the third and the last kind failed; the other three images
\* are on disk.
C18_Witness ==
    /\ p_pc = "done"
    /\ fail_kinds = {"mel", "log_stft", "modulation"}
    /\ written = {"cqt", "wavelet", "spectral_kurtosis"}
    /\ attempted = KindSet

\* C19 as stated: the kinds of the mapping generate_all_spectrograms returns
\* are exactly the kinds whose image was written.
C19_MappingIsWritten ==
    p_pc \in {"features", "done", "failed"} => spectrogram_paths = written

\* C20 as stated: the feature extractor works on the denoised samples, the
\* ones the renderers were given.
C20_ExtractorGetsDenoised ==
    p_pc = "done" =>
        /\ extractor_input = renderer_input
        /\ (denoiser = "ok" /\ denoising_method = "spectral_gating") =>
              extractor_input.denoised

\* The denoiser did not do its work: it raised inside, or the method is
\* not one apply_denoising knows.
DenoiserFailed ==
    denoiser = "raises" \/ denoising_method \notin {"spectral_gating", "simple_gate"}

FeatureSchema == DOMAIN ExtractAllFeatures(TRUE, TRUE, TRUE, TRUE, TRUE)

\* C22: whenever extract_all_features returns, the keys of its result are
\* the keys of the schema, whichever branches the signal took.
C22_FixedKeySet ==
    p_pc = "done" => DOMAIN features = FeatureSchema

\* A signal with no pitch, no percussive energy, no spectral energy and no
\* peak: the sentinel values are in place and the keys are those of the
\* schema.
C22_Witness ==
    /\ p_pc = "done"
    /\ features["fundamental_freq_mean"] = "zero"
    /\ features["harmonic_noise_ratio"] = "inf"
    /\ features["low_freq_energy_ratio"] = "zero"
    /\ features["spectral_peaks_count"] = "zero"
    /\ DOMAIN features = FeatureSchema

\* Clear has returned: its last step, the removal of the record, is done.
ClearReturned == cleared /\ c_pc = "idle"

\* C23: in every state after Clear has returned, whatever the worker and
\* the status queries have done since, the registry holds no record for the
\* session.
C23_RemovedStaysRemoved == ClearReturned => batch_status = NoJob

\* Clear returned while the first of two files was in its pipeline; the
\* worker finished that file, passed its completed append and its final
\* status write and ended, a status query was answered, and there is no
\* record.
C23_Witness ==
    /\ ClearReturned
    /\ w_pc = "done"
    /\ Len(file_list) = 2
    /\ Len(outcomes) = 1 /\ outcomes[1].result = "ok"
    /\ completed_files = << >>
    /\ r_pc = "idle" /\ response # NoResponse
    /\ batch_status = NoJob

\* The result directory of the file with this display name holds a
\* features.json.
FeaturesPersisted(name) ==
    \E k \in 1..Len(file_list) :
        file_list[k].original_name = name /\ FileId(k) \in features_json

\* C24: while the Job record exists, every name in its completed list is
\* the name of a file whose features.json is on disk.
C24_CompletedArePersisted ==
    JobExists =>
        \A j \in 1..Len(completed_files) : FeaturesPersisted(completed_files[j])

\* Nothing of the session is on disk: no upload, no results directory, no
\* per-file directory, image or features.json.
NoArtifacts ==
    /\ \A k \in 1..Len(uploads) : uploads[k] = "absent"
    /\ ~results_dir
    /\ file_dirs = {}
    /\ png = {}
    /\ features_json = {}

\* C25: once Clear has returned and the worker has ended, nothing of the
\* session is on disk.
C25_NothingRemainsAfterClear ==
    (ClearReturned /\ w_pc = "done") => NoArtifacts

\* What process_batch_files leaves in the registry when it has ended and no
\* Clear is under way, as a function of the file list, the outcome of each
\* file's pipeline and whether Clear ran: no record after Clear; otherwise
\* a 'completed' record whose index is the number of files, with the
\* succeeding files' names in the completed list and one message per
\* failing file in the error list, both in processing order.
OutcomesWith(ok) ==
    SelectSeq(outcomes, LAMBDA o : (o.result = "ok") = ok)

FinalJob ==
    IF cleared
    THEN NoJob
    ELSE [status |-> "completed",
          current_file |-> Len(file_list),
          total_files |-> Len(file_list),
          current_filename |-> file_list[Len(file_list)].original_name,
          end_time |-> TRUE,
          error |-> "none"]

FinalCompleted ==
    [j \in 1..Len(OutcomesWith(TRUE)) |->
        file_list[OutcomesWith(TRUE)[j].file].original_name]

FinalErrors ==
    [j \in 1..Len(OutcomesWith(FALSE)) |->
        ErrorMsg(file_list[OutcomesWith(FALSE)[j].file].original_name,
                 OutcomesWith(FALSE)[j].result)]

RegistryIsFinal ==
    /\ batch_status = FinalJob
    /\ JobExists => (completed_files = FinalCompleted /\ errors = FinalErrors)

\* The controller thread has ended: it returned, or an exception left it.
ControllerEnded == w_pc \in {"done", "escaped"} /\ c_pc = "idle"

\* C26: when BatchProcessor.process_batch has ended, no exception has left
\* it and the registry is in the state process_batch_files leaves for the
\* same file list, per-file outcomes and timing of Clear.
C26_Interchangeable ==
    ControllerEnded => (w_pc = "done" /\ RegistryIsFinal)

====
